---- MODULE Spec2Model ----
(***************************************************************************)
(* Expense tracker: the CSV-backed store, its two front ends (the CLI menu *)
(* of expense_tracker.py and the Tk form of expense_tracker_gui.py) and    *)
(* the month/category aggregation.                                         *)
(*                                                                         *)
(* Text is modelled as a sequence of one-character strings, a file as a    *)
(* sequence of lines (each line complete, its terminator left out), a      *)
(* Python float as an IEEE-754 double (see the Double section).            *)
(***************************************************************************)
EXTENDS Integers, Sequences, FiniteSets, TLC

VARIABLES
    exists,   \* os.path.exists(CSV_FILE)
    file,     \* the lines of CSV_FILE, in file order
    mode,     \* which front end runs: "stopped", "cli", "gui", "crashed"
    tree,     \* the rows of the GUI's Treeview
    out       \* what the last operation reported to the user

vars == <<exists, file, mode, tree, out>>

(***************************************************************************)
(* Text                                                                    *)
(***************************************************************************)
Digits == <<"0", "1", "2", "3", "4", "5", "6", "7", "8", "9">>

IsDigit(c) == \E i \in 1..10 : Digits[i] = c

DigitVal(c) == (CHOOSE i \in 1..10 : Digits[i] = c) - 1

IsSpace(c) == c = " "

\* Python's None, as a value of the same shape as a text.
None == <<"None">>

\* A failed dictionary lookup (KeyError), same shape.
KeyErr == <<"KeyError">>

IsText(v) == v # None /\ v # KeyErr

RECURSIVE LStrip(_)
LStrip(s) ==
    IF s # <<>> /\ IsSpace(Head(s)) THEN LStrip(Tail(s)) ELSE s

RECURSIVE RStrip(_)
RStrip(s) ==
    IF s # <<>> /\ IsSpace(s[Len(s)]) THEN RStrip(SubSeq(s, 1, Len(s) - 1)) ELSE s

\* str.strip()
Strip(s) == RStrip(LStrip(s))

\* Lexicographic order of two texts of digits and "-" (sorted() on month keys).
CharRank(c) == IF c = "-" THEN 0 ELSE 1 + DigitVal(c)

RECURSIVE TextLess(_, _)
TextLess(a, b) ==
    IF b = <<>> THEN FALSE
    ELSE IF a = <<>> THEN TRUE
    ELSE IF Head(a) = Head(b) THEN TextLess(Tail(a), Tail(b))
    ELSE CharRank(Head(a)) < CharRank(Head(b))

\* Two decimal digits of n, zero padded (the %m and %d of strftime).
TwoDigits(n) == <<Digits[((n \div 10) % 10) + 1], Digits[(n % 10) + 1]>>

\* Four decimal digits of n, zero padded (the %Y of strftime, years 1000..9999).
FourDigits(n) == <<Digits[((n \div 1000) % 10) + 1], Digits[((n \div 100) % 10) + 1]>>
                 \o TwoDigits(n % 100)

(***************************************************************************)
(* datetime.strptime / strftime                                            *)
(***************************************************************************)
DateErr == [ok |-> FALSE, y |-> 0, m |-> 0, d |-> 0]

IsLeap(y) == (y % 4 = 0) /\ ((y % 100 # 0) \/ (y % 400 = 0))

DaysInMonth(y, m) ==
    IF m = 2 THEN (IF IsLeap(y) THEN 29 ELSE 28)
    ELSE IF m \in {4, 6, 9, 11} THEN 30 ELSE 31

\* The directive %Y: exactly four digits at position i.
YearAt(s, i) ==
    IF Len(s) >= i + 3 /\ \A k \in i..(i + 3) : IsDigit(s[k])
    THEN [ok |-> TRUE,
          v |-> 1000 * DigitVal(s[i]) + 100 * DigitVal(s[i + 1])
                + 10 * DigitVal(s[i + 2]) + DigitVal(s[i + 3]),
          next |-> i + 4]
    ELSE [ok |-> FALSE, v |-> 0, next |-> i]

\* The directive %m, 1[0-2]|0[1-9]|[1-9], in the alternation's order; `two`
\* chooses between the two-character alternatives and the one-character one.
MonthAt(s, i, two) ==
    IF two
    THEN IF Len(s) >= i + 1 /\ IsDigit(s[i]) /\ IsDigit(s[i + 1])
            /\ 10 * DigitVal(s[i]) + DigitVal(s[i + 1]) \in 1..12
         THEN [ok |-> TRUE, v |-> 10 * DigitVal(s[i]) + DigitVal(s[i + 1]), next |-> i + 2]
         ELSE [ok |-> FALSE, v |-> 0, next |-> i]
    ELSE IF Len(s) >= i /\ IsDigit(s[i]) /\ DigitVal(s[i]) >= 1
         THEN [ok |-> TRUE, v |-> DigitVal(s[i]), next |-> i + 1]
         ELSE [ok |-> FALSE, v |-> 0, next |-> i]

\* The directive %d, 3[0-1]|[1-2]\d|0[1-9]|[1-9]| [1-9].
DayAt(s, i) ==
    IF Len(s) >= i + 1 /\ IsDigit(s[i]) /\ IsDigit(s[i + 1])
       /\ 10 * DigitVal(s[i]) + DigitVal(s[i + 1]) \in 1..31
    THEN [ok |-> TRUE, v |-> 10 * DigitVal(s[i]) + DigitVal(s[i + 1]), next |-> i + 2]
    ELSE IF Len(s) >= i /\ IsDigit(s[i]) /\ DigitVal(s[i]) >= 1
    THEN [ok |-> TRUE, v |-> DigitVal(s[i]), next |-> i + 1]
    ELSE IF Len(s) >= i + 1 /\ s[i] = " " /\ IsDigit(s[i + 1]) /\ DigitVal(s[i + 1]) >= 1
    THEN [ok |-> TRUE, v |-> DigitVal(s[i + 1]), next |-> i + 2]
    ELSE [ok |-> FALSE, v |-> 0, next |-> i]

\* The month of a "%Y-%m..." text whose month is followed by `after` ("-" for
\* a date, the end of the text for a month key): the regular expression
\* backtracks from the two-character alternatives to the one-character one.
MonthFollowed(s, i, dash) ==
    LET m2 == MonthAt(s, i, TRUE)
        m1 == MonthAt(s, i, FALSE)
        fits(r) == r.ok /\ (IF dash THEN Len(s) >= r.next /\ s[r.next] = "-"
                                    ELSE TRUE)
    IN  IF fits(m2) THEN m2 ELSE IF fits(m1) THEN m1
        ELSE [ok |-> FALSE, v |-> 0, next |-> i]

\* datetime.strptime(s, "%Y-%m-%d"); ok = FALSE is the ValueError.
StrptimeYMD(s) ==
    IF ~IsText(s) THEN DateErr
    ELSE
    LET y == YearAt(s, 1) IN
    IF ~(y.ok /\ Len(s) >= y.next /\ s[y.next] = "-") THEN DateErr
    ELSE
    LET m == MonthFollowed(s, y.next + 1, TRUE) IN
    IF ~m.ok THEN DateErr
    ELSE
    LET d == DayAt(s, m.next + 1) IN
    IF ~d.ok \/ d.next # Len(s) + 1 THEN DateErr        \* unconverted data remains
    ELSE IF y.v < 1 \/ d.v > DaysInMonth(y.v, m.v) THEN DateErr
    ELSE [ok |-> TRUE, y |-> y.v, m |-> m.v, d |-> d.v]

\* datetime.strptime(s, "%Y-%m"): the day defaults to 1.
StrptimeYM(s) ==
    IF ~IsText(s) THEN DateErr
    ELSE
    LET y == YearAt(s, 1) IN
    IF ~(y.ok /\ Len(s) >= y.next /\ s[y.next] = "-") THEN DateErr
    ELSE
    LET m == MonthFollowed(s, y.next + 1, FALSE) IN
    IF ~m.ok \/ m.next # Len(s) + 1 \/ y.v < 1 THEN DateErr
    ELSE [ok |-> TRUE, y |-> y.v, m |-> m.v, d |-> 1]

\* date.strftime("%Y-%m-%d")
StrftimeYMD(dt) == FourDigits(dt.y) \o <<"-">> \o TwoDigits(dt.m) \o <<"-">> \o TwoDigits(dt.d)

\* date.strftime("%Y-%m")
StrftimeYM(dt) == FourDigits(dt.y) \o <<"-">> \o TwoDigits(dt.m)

(***************************************************************************)
(* Double: Python's float.  A finite double is a sign and a magnitude, and *)
(* the magnitude is held exactly, as a natural number of units of          *)
(* 2^-(16*FracLimbs), in NLimbs little-endian limbs of 16 bits.  Every     *)
(* double between 2^-27 and 2^(16*(NLimbs-FracLimbs)) is such a number;    *)
(* the amounts of the model lie well inside.  Rounding is IEEE-754         *)
(* round-to-nearest, ties-to-even, to MantBits significant bits.           *)
(***************************************************************************)
Base == 2^16

\* Limbs below the binary point.
FracLimbs == 5

\* Limbs in all.
NLimbs == 8

\* Significant bits of a double.
MantBits == 53

\* The limbs f[1..NLimbs] as a tuple.
RECURSIVE LimbsFrom(_, _)
LimbsFrom(f, k) == IF k > NLimbs THEN <<>> ELSE <<f[k]>> \o LimbsFrom(f, k + 1)

Limbs(f) == LimbsFrom(f, 1)

BigZero == Limbs([k \in 1..NLimbs |-> 0])

BigIsZero(a) == \A k \in 1..NLimbs : a[k] = 0

\* 2^i
BigPow2(i) == Limbs([k \in 1..NLimbs |-> IF k = (i \div 16) + 1 THEN 2^(i % 16) ELSE 0])

\* The loops below carry their state (the limb index k, the carry, the limbs
\* made so far) in one record st.
RECURSIVE MulAddFrom(_, _, _)
MulAddFrom(a, m, st) ==
    IF st.k > NLimbs THEN st.limbs
    ELSE LET t == a[st.k] * m + st.carry
         IN  MulAddFrom(a, m, [k |-> st.k + 1, carry |-> t \div Base,
                               limbs |-> Append(st.limbs, t % Base)])

\* a * m + c, for small m and c
BigMulAdd(a, m, c) == MulAddFrom(a, m, [k |-> 1, carry |-> c, limbs |-> <<>>])

RECURSIVE AddFrom(_, _, _)
AddFrom(a, b, st) ==
    IF st.k > NLimbs THEN st.limbs
    ELSE LET t == a[st.k] + b[st.k] + st.carry
         IN  AddFrom(a, b, [k |-> st.k + 1, carry |-> t \div Base,
                            limbs |-> Append(st.limbs, t % Base)])

BigAdd(a, b) == AddFrom(a, b, [k |-> 1, carry |-> 0, limbs |-> <<>>])

RECURSIVE SubFrom(_, _, _)
SubFrom(a, b, st) ==
    IF st.k > NLimbs THEN st.limbs
    ELSE LET t == a[st.k] - b[st.k] - st.carry
         IN  SubFrom(a, b, [k |-> st.k + 1, carry |-> IF t < 0 THEN 1 ELSE 0,
                            limbs |-> Append(st.limbs, IF t < 0 THEN t + Base ELSE t)])

\* a - b, for a >= b
BigSub(a, b) == SubFrom(a, b, [k |-> 1, carry |-> 0, limbs |-> <<>>])

RECURSIVE LessFrom(_, _, _)
LessFrom(a, b, k) ==
    IF k = 0 THEN FALSE
    ELSE IF a[k] # b[k] THEN a[k] < b[k]
    ELSE LessFrom(a, b, k - 1)

BigLess(a, b) == LessFrom(a, b, NLimbs)

RECURSIVE DivFrom(_, _, _)
DivFrom(a, m, st) ==
    IF st.k = 0 THEN [q |-> st.q, r |-> st.r]
    ELSE LET t == st.r * Base + a[st.k]
         IN  DivFrom(a, m, [k |-> st.k - 1, r |-> t % m, q |-> <<t \div m>> \o st.q])

\* a divided by a small m: quotient q and remainder r
BigDivSmall(a, m) == DivFrom(a, m, [k |-> NLimbs, r |-> 0, q |-> <<>>])

RECURSIVE SmallBitLen(_)
SmallBitLen(n) == IF n = 0 THEN 0 ELSE 1 + SmallBitLen(n \div 2)

RECURSIVE BitLenFrom(_, _)
BitLenFrom(a, k) ==
    IF k = 0 THEN 0
    ELSE IF a[k] # 0 THEN 16 * (k - 1) + SmallBitLen(a[k])
    ELSE BitLenFrom(a, k - 1)

\* The number of bits of a (0 for 0).
BitLen(a) == BitLenFrom(a, NLimbs)

\* Bit i of a (bit 0 is the lowest).
Bit(a, i) == (a[(i \div 16) + 1] \div 2^(i % 16)) % 2

\* Whether a bit of a below bit i is set.
AnyBelow(a, i) ==
    \E k \in 1..NLimbs :
        \/ 16 * k <= i /\ a[k] # 0
        \/ 16 * (k - 1) < i /\ i < 16 * k /\ a[k] % 2^(i - 16 * (k - 1)) # 0

\* a with its bits below bit i cleared.
ClearBelow(a, i) ==
    Limbs([k \in 1..NLimbs |->
        IF 16 * k <= i THEN 0
        ELSE IF 16 * (k - 1) < i THEN a[k] - (a[k] % 2^(i - 16 * (k - 1)))
        ELSE a[k]])

\* q (plus, when sticky, a fraction of a unit) rounded to MantBits
\* significant bits, to nearest, ties to even.
RoundMant(q, sticky) ==
    LET len == BitLen(q) IN
    IF len <= MantBits THEN q
    ELSE LET drop == len - MantBits
             half == Bit(q, drop - 1) = 1
             below == sticky \/ AnyBelow(q, drop - 1)
             odd == Bit(q, drop) = 1
             t == ClearBelow(q, drop)
         IN  IF half /\ (below \/ odd) THEN BigAdd(t, BigPow2(drop)) ELSE t

NaN == [kind |-> "nan", neg |-> FALSE, mag |-> BigZero]

Inf(neg) == [kind |-> "inf", neg |-> neg, mag |-> BigZero]

Num(neg, mag) == [kind |-> "num", neg |-> neg, mag |-> mag]

\* float(): the ValueError or TypeError
FloatErr == [kind |-> "err", neg |-> FALSE, mag |-> BigZero]

\* 0.0, the value of float() and of defaultdict(float)'s missing entry
Zero == Num(FALSE, BigZero)

IsFinite(x) == x.kind = "num"

\* x + y on doubles
DoubleAdd(x, y) ==
    IF x.kind = "nan" \/ y.kind = "nan" THEN NaN
    ELSE IF x.kind = "inf" /\ y.kind = "inf"
         THEN (IF x.neg = y.neg THEN x ELSE NaN)
    ELSE IF x.kind = "inf" THEN x
    ELSE IF y.kind = "inf" THEN y
    ELSE IF x.neg = y.neg THEN Num(x.neg, RoundMant(BigAdd(x.mag, y.mag), FALSE))
    ELSE IF x.mag = y.mag THEN Zero
    ELSE IF BigLess(x.mag, y.mag) THEN Num(y.neg, RoundMant(BigSub(y.mag, x.mag), FALSE))
    ELSE Num(x.neg, RoundMant(BigSub(x.mag, y.mag), FALSE))

\* The digits ds from digit st.i on, read as a natural number on top of st.n.
RECURSIVE DigitsFrom(_, _)
DigitsFrom(ds, st) ==
    IF st.i > Len(ds) THEN st.n
    ELSE DigitsFrom(ds, [i |-> st.i + 1, n |-> BigMulAdd(st.n, 10, DigitVal(ds[st.i]))])

DigitsToBig(ds) == DigitsFrom(ds, [i |-> 1, n |-> BigZero])

\* st.q / 10^st.n: the floor, and whether anything was cut off.
RECURSIVE DivPow10(_)
DivPow10(st) ==
    IF st.n = 0 THEN st
    ELSE LET d == BigDivSmall(st.q, 10)
         IN  DivPow10([n |-> st.n - 1, q |-> d.q, sticky |-> st.sticky \/ d.r # 0])

\* a units become a * 2^(16*FracLimbs) units: the integer a as a magnitude.
ShiftUp(a) ==
    Limbs([k \in 1..NLimbs |-> IF k <= FracLimbs THEN 0 ELSE a[k - FracLimbs]])

\* The double nearest to the decimal <int digits>.<frac digits>.
DecimalToMag(ip, fp) ==
    LET n == DigitsToBig(ip \o fp)
        d == DivPow10([n |-> Len(fp), q |-> ShiftUp(n), sticky |-> FALSE])
    IN  RoundMant(d.q, d.sticky)

\* The longest prefix of s made of digits.
RECURSIVE DigitPrefix(_)
DigitPrefix(s) ==
    IF s # <<>> /\ IsDigit(Head(s)) THEN <<Head(s)>> \o DigitPrefix(Tail(s)) ELSE <<>>

\* float(s) for a text s.  Modelled: surrounding whitespace, a sign, decimal
\* digits with an optional point, and the words inf and nan.  (Exponents,
\* underscores and capitals, which float() also takes, are not drawn as
\* inputs.)
ParseFloat(s) ==
    IF ~IsText(s) THEN FloatErr
    ELSE
    LET t == Strip(s)
        signed == t # <<>> /\ Head(t) \in {"+", "-"}
        neg == t # <<>> /\ Head(t) = "-"
        u == IF signed THEN Tail(t) ELSE t
        ip == DigitPrefix(u)
        r == SubSeq(u, Len(ip) + 1, Len(u))
        fp == IF r # <<>> /\ Head(r) = "." THEN DigitPrefix(Tail(r)) ELSE <<>>
        wellFormed ==
            /\ Len(ip) + Len(fp) >= 1
            /\ \/ r = <<>>
               \/ Head(r) = "." /\ Len(r) = 1 + Len(fp)
    IN  IF u = <<"i", "n", "f">> THEN Inf(neg)
        ELSE IF u = <<"n", "a", "n">> THEN NaN
        ELSE IF wellFormed THEN Num(neg, DecimalToMag(ip, fp))
        ELSE FloatErr

\* The decimal digits of the integer a, at least `least` of them.
RECURSIVE BigToDigits(_, _)
BigToDigits(a, least) ==
    IF BigIsZero(a) /\ least <= 0 THEN <<>>
    ELSE LET d == BigDivSmall(a, 10)
         IN  Append(BigToDigits(d.q, least - 1), Digits[d.r + 1])

\* The magnitude m times 100, rounded to an integer, ties to even.
RoundCents(m) ==
    LET p == BigMulAdd(m, 100, 0)
        q == Limbs([k \in 1..NLimbs |->
                      IF k + FracLimbs <= NLimbs THEN p[k + FracLimbs] ELSE 0])
        half == Bit(p, 16 * FracLimbs - 1) = 1
        below == AnyBelow(p, 16 * FracLimbs - 1)
        odd == q[1] % 2 = 1
    IN  IF half /\ (below \/ odd) THEN BigAdd(q, BigPow2(0)) ELSE q

\* f"{x:.2f}"
Format2f(x) ==
    IF x.kind = "nan" THEN <<"n", "a", "n">>
    ELSE IF x.kind = "inf"
         THEN (IF x.neg THEN <<"-">> ELSE <<>>) \o <<"i", "n", "f">>
    ELSE LET ds == BigToDigits(RoundCents(x.mag), 3)
         IN  (IF x.neg THEN <<"-">> ELSE <<>>)
             \o SubSeq(ds, 1, Len(ds) - 2) \o <<".">> \o SubSeq(ds, Len(ds) - 1, Len(ds))

(***************************************************************************)
(* csv: the writer and the reader of the excel dialect                     *)
(***************************************************************************)
FIELDNAMES == << <<"d", "a", "t", "e">>,
                 <<"a", "m", "o", "u", "n", "t">>,
                 <<"c", "a", "t", "e", "g", "o", "r", "y">>,
                 <<"d", "e", "s", "c", "r", "i", "p", "t", "i", "o", "n">> >>

K_date == FIELDNAMES[1]

K_amount == FIELDNAMES[2]

K_category == FIELDNAMES[3]

K_description == FIELDNAMES[4]

\* QUOTE_MINIMAL: a field is quoted when it holds the delimiter, the quote
\* character or a line break.
NeedsQuote(f) == \E i \in 1..Len(f) : f[i] \in {",", "\"", "\n", "\r"}

RECURSIVE DoubleQuotes(_)
DoubleQuotes(f) ==
    IF f = <<>> THEN <<>>
    ELSE IF Head(f) = "\"" THEN <<"\"", "\"">> \o DoubleQuotes(Tail(f))
    ELSE <<Head(f)>> \o DoubleQuotes(Tail(f))

\* A writer that never quotes.
WriteFieldPlain(f) == f

WriteField(f) ==
    IF NeedsQuote(f) THEN <<"\"">> \o DoubleQuotes(f) \o <<"\"">> ELSE f

RECURSIVE JoinFields(_)
JoinFields(fs) ==
    IF fs = <<>> THEN <<>>
    ELSE IF Len(fs) = 1 THEN WriteField(fs[1])
    ELSE WriteField(fs[1]) \o <<",">> \o JoinFields(Tail(fs))

\* csv.writer.writerow: the line written for a row of several fields.
WriteRow(fs) == JoinFields(fs)

\* A line with a header row (DictWriter.writeheader).
HeaderLine == WriteRow(FIELDNAMES)

\* The reader's automaton over one line; p is its state: the next character
\* i, the state st (record: at the start of a record, start: at the start of
\* a field, field, quoted: inside quotes, quote: after a quote inside quotes),
\* the field fld and the row read so far.
\* One step of the automaton, on character c.
ScanChar(p, c) ==
    LET go(st, fld, row) == [i |-> p.i + 1, st |-> st, fld |-> fld, row |-> row] IN
    IF p.st \in {"record", "start"} THEN
        IF c = "\"" THEN go("quoted", p.fld, p.row)
        ELSE IF c = "," THEN go("start", <<>>, Append(p.row, p.fld))
        ELSE go("field", Append(p.fld, c), p.row)
    ELSE IF p.st = "field" THEN
        IF c = "," THEN go("start", <<>>, Append(p.row, p.fld))
        ELSE go("field", Append(p.fld, c), p.row)
    ELSE IF p.st = "quoted" THEN
        IF c = "\"" THEN go("quote", p.fld, p.row)
        ELSE go("quoted", Append(p.fld, c), p.row)
    ELSE \* p.st = "quote"
        IF c = "\"" THEN go("quoted", Append(p.fld, c), p.row)
        ELSE IF c = "," THEN go("start", <<>>, Append(p.row, p.fld))
        ELSE go("field", Append(p.fld, c), p.row)

RECURSIVE ScanLine(_, _)
ScanLine(s, p) ==
    IF p.i > Len(s) THEN p ELSE ScanLine(s, ScanChar(p, s[p.i]))

\* csv.reader over the lines from line k on: the rows, a blank line giving
\* the empty row; a field left open in quotes runs on into the next line.
RECURSIVE ReadFrom(_, _, _, _, _)
ReadFrom(lines, k, st, fld, row) ==
    IF k > Len(lines)
    THEN (IF st = "quoted" THEN <<Append(row, fld)>> ELSE <<>>)
    ELSE LET r == ScanLine(lines[k], [i |-> 1, st |-> st, fld |-> fld, row |-> row]) IN
         IF r.st = "quoted"
         THEN ReadFrom(lines, k + 1, "quoted", Append(r.fld, "\n"), r.row)
         ELSE <<IF r.st = "record" THEN <<>> ELSE Append(r.row, r.fld)>>
              \o ReadFrom(lines, k + 1, "record", <<>>, <<>>)

CsvRows(lines) == ReadFrom(lines, 1, "record", <<>>, <<>>)

RECURSIVE DropEmpty(_)
DropEmpty(rows) ==
    IF rows = <<>> THEN <<>>
    ELSE IF Head(rows) = <<>> THEN DropEmpty(Tail(rows))
    ELSE <<Head(rows)>> \o DropEmpty(Tail(rows))

\* csv.DictReader: the first row is the field names; every later row that is
\* not empty is one dictionary, here the pair of the field names and the row.
DictRows(lines) ==
    LET rows == CsvRows(lines) IN
    IF rows = <<>> THEN <<>>
    ELSE LET rest == DropEmpty(Tail(rows))
         IN  [i \in 1..Len(rest) |-> [names |-> Head(rows), row |-> rest[i]]]

\* d[key] of a DictReader dictionary: dict(zip(fieldnames, row)), a later
\* duplicate name winning; restval None for the names past the row's end;
\* KeyError for a name the header lacks.
Lookup(d, key) ==
    LET hits == {i \in 1..Len(d.names) : d.names[i] = key}
        filled == {i \in hits : i <= Len(d.row)}
    IN  IF hits = {} THEN KeyErr
        ELSE IF filled # {} THEN d.row[CHOOSE i \in filled : \A j \in filled : j <= i]
        ELSE None

(***************************************************************************)
(* The store                                                               *)
(***************************************************************************)
\* One dictionary of the reader as read_expenses keeps it: amount a float,
\* date a datetime; ok = FALSE when either conversion raises.
ParseExpense(d) ==
    LET amount == ParseFloat(Lookup(d, K_amount))
        date == StrptimeYMD(Lookup(d, K_date))
    IN  [ok |-> amount.kind # "err" /\ date.ok,
         date |-> date,
         amount |-> amount,
         category |-> Lookup(d, K_category),
         description |-> Lookup(d, K_description)]

\* One pass of the loop: row e kept or skipped, before the rest.
KeepOrSkip(e, rest) ==
    IF e.ok THEN <<e>> \o rest       \* expenses.append(row)
    ELSE rest                        \* except Exception: continue

RECURSIVE KeepParsed(_)
KeepParsed(ds) ==
    IF ds = <<>> THEN <<>>
    ELSE KeepOrSkip(ParseExpense(Head(ds)), KeepParsed(Tail(ds)))

\* read_expenses(), of a file that does or does not exist.
ReadExpenses(ex, lines) ==
    IF ~ex THEN <<>> ELSE KeepParsed(DictRows(lines))

\* The row add_expense appends for a date, an amount and two texts.
ExpenseLine(date, amount, category, description) ==
    WriteRow(<<StrftimeYMD(date), Format2f(amount), category, description>>)

(***************************************************************************)
(* Aggregation                                                             *)
(***************************************************************************)
\* A dict in insertion order: a sequence of <<key, value>>.
HasKey(dict, key) == \E i \in 1..Len(dict) : dict[i][1] = key

Get(dict, key) == dict[CHOOSE i \in 1..Len(dict) : dict[i][1] = key][2]

Put(dict, key, val) ==
    IF HasKey(dict, key)
    THEN [i \in 1..Len(dict) |-> IF dict[i][1] = key THEN <<key, val>> ELSE dict[i]]
    ELSE Append(dict, <<key, val>>)

\* totals[category] = amount: the entry replaced, not added to.
AccumulateOverwrite(dict, category, amount) == Put(dict, category, amount)

\* category_totals[category] += amount on a defaultdict(float)
Accumulate(dict, category, amount) ==
    Put(dict, category,
        DoubleAdd(IF HasKey(dict, category) THEN Get(dict, category) ELSE Zero, amount))

\* category_totals of plot_expenses: the amounts of `exps` by category.
RECURSIVE CategoryTotals(_, _)
CategoryTotals(exps, acc) ==
    IF exps = <<>> THEN acc
    ELSE CategoryTotals(Tail(exps),
                        Accumulate(acc, Head(exps).category, Head(exps).amount))

\* totals[month][category] += amount on a defaultdict of defaultdict(float)
RECURSIVE MonthTotals(_, _)
MonthTotals(exps, acc) ==
    IF exps = <<>> THEN acc
    ELSE LET e == Head(exps)
             month == StrftimeYM(e.date)
             inner == IF HasKey(acc, month) THEN Get(acc, month) ELSE <<>>
         IN  MonthTotals(Tail(exps),
                         Put(acc, month, Accumulate(inner, e.category, e.amount)))

\* sorted(keys): insertion of key into a sorted sequence.
RECURSIVE InsertSorted(_, _)
InsertSorted(keys, key) ==
    IF keys = <<>> THEN <<key>>
    ELSE IF TextLess(key, Head(keys)) THEN <<key>> \o keys
    ELSE <<Head(keys)>> \o InsertSorted(Tail(keys), key)

RECURSIVE SortedKeys(_)
SortedKeys(dict) ==
    IF dict = <<>> THEN <<>>
    ELSE InsertSorted(SortedKeys(Tail(dict)), Head(dict)[1])

\* The monthly report: for month in sorted(totals.keys()), the month and its
\* categories with their totals, in the dict's order.
MonthlyReport(exps) ==
    LET totals == MonthTotals(exps, <<>>)
        months == SortedKeys(totals)
    IN  [i \in 1..Len(months) |-> <<months[i], Get(totals, months[i])>>]

\* filtered without its month test.
FilterMonthNone(exps, month) == exps

\* filtered of plot_expenses: the expenses whose month is month_input.
RECURSIVE FilterMonth(_, _)
FilterMonth(exps, month) ==
    IF exps = <<>> THEN <<>>
    ELSE IF StrftimeYM(Head(exps).date) = month
         THEN <<Head(exps)>> \o FilterMonth(Tail(exps), month)
    ELSE FilterMonth(Tail(exps), month)

(***************************************************************************)
(* Inputs and initial files                                                *)
(***************************************************************************)
\* The most lines the file grows to.
MaxLines == 4

Form(date, amount, category, description) ==
    [date |-> date, amount |-> amount, category |-> category, description |-> description]

\* What the user types into the four prompts or entries.
Inputs ==
    { Form(<<" ","2","0","2","4","-","1","-","5">>, <<"0",".","1","0"," ">>,
           <<" ","F","o","o","d"," ">>, <<>>),
      Form(<<"2","0","2","4","-","0","1","-","2","0">>, <<"0",".","1","9","6">>,
           <<"F","o","o","d">>, <<"a",",","\"","b">>),
      Form(<<"2","0","2","4","-","0","2","-","0","1">>, <<"2",".","6","7","5">>,
           <<"B","u","s">>, <<"x">>),
      Form(<<"2","0","2","4","-","0","2","-","3","0">>, <<"5">>,
           <<"B","u","s">>, <<>>),
      Form(<<"2","0","2","4","-","0","2","-","0","1">>, <<"a","b","c">>,
           <<"B","u","s">>, <<>>),
      Form(<<"2","0","2","4","-","0","2","-","0","1">>, <<"n","a","n">>,
           <<" "," ">>, <<>>) }

\* What the user types for the month to plot.
MonthInputs ==
    { <<"2","0","2","4","-","0","1">>, <<"2","0","2","4","-","0","2">>,
      <<"2","0","2","4","-","0","3">>, <<"2","0","2","4","-","1">>,
      <<"0","1","/","2","0","2","4">>, <<>> }

\* What the user types for the chart: the CLI takes 1 and 2, the GUI pie and
\* bar; nothing typed is the GUI's cancelled dialog.
ChartInputs == { <<"1">>, <<"b","a","r">>, <<>> }

\* Lines another program or an editor may have left in the file.
GoodJan == <<"2","0","2","4","-","0","1","-","1","5",",","1","0",".","0","0",",",
             "F","o","o","d",",","l","u","n","c","h">>

GoodFeb == <<"2","0","2","4","-","0","2","-","0","1",",","3",".","0","0",",",
             "B","u","s",",">>

ShortRow == <<"2","0","2","4","-","0","1","-","1","6",",","5",".","0","0">>

LongRow == <<"2","0","2","4","-","0","1","-","1","7",",","7",".","0","0",",",
             "F","o","o","d",",","y",",","e","x","t","r","a">>

BadAmount == <<"2","0","2","4","-","0","1","-","1","8",",","a","b","c",",",
               "F","o","o","d",",","x">>

BadDate == <<"2","0","2","4","-","0","2","-","3","0",",","1",".","0","0",",",
             "F","o","o","d",",","z">>

\* The file before the program first runs: absent, or present with a header
\* and rows of any kind.
InitialFiles ==
    { <<HeaderLine>>,
      <<HeaderLine, GoodFeb, GoodJan, GoodJan>>,
      <<HeaderLine, ShortRow, GoodJan>>,
      <<HeaderLine, LongRow, GoodJan>>,
      <<HeaderLine, BadAmount, GoodJan>>,
      <<HeaderLine, BadDate, <<>>, GoodJan>> }

(***************************************************************************)
(* Operations shared by the two front ends                                 *)
(***************************************************************************)
\* initialize_csv without its os.path.exists test.
InitializeCsvAlways(ex, lines) == <<HeaderLine>>

\* initialize_csv(): the file afterwards.
InitializeCsv(ex, lines) == IF ~ex THEN <<HeaderLine>> ELSE lines

\* open(..., mode='w') in place of mode='a'.
AppendLineTruncating(lines, line) == <<line>>

\* open(CSV_FILE, mode='a') and one writerow: the file afterwards.
AppendLine(lines, line) == Append(lines, line)

\* A category or description as an f-string prints it.
Shown(v) == IF v = None THEN <<"N", "o", "n", "e">> ELSE v

\* One expense as a listing shows it.
ListingRow(e) ==
    [date |-> StrftimeYMD(e.date), amount |-> Format2f(e.amount),
     category |-> e.category, description |-> Shown(e.description)]

(***************************************************************************)
(* The CLI: main()'s menu loop and its five choices                        *)
(***************************************************************************)
\* exp['category'] of display_expenses and monthly_totals raises: KeyError
\* for a header without the column, TypeError for None under ":<15".
CliCategoryRaises(e) == e.category = KeyErr \/ e.category = None

CliRowRaises(e) == CliCategoryRaises(e) \/ e.description = KeyErr

\* The rows display_expenses prints before it returns or raises.
RECURSIVE CliListing(_)
CliListing(exps) ==
    IF exps = <<>> \/ CliRowRaises(Head(exps)) THEN <<>>
    ELSE <<ListingRow(Head(exps))>> \o CliListing(Tail(exps))

CliStart ==
    /\ mode \in {"stopped", "crashed"}
    /\ file' = InitializeCsv(exists, file)
    /\ exists' = TRUE
    /\ mode' = "cli"
    /\ tree' = <<>>
    /\ out' = [op |-> "start", existed |-> exists]

CliAdd(inp) ==
    /\ mode = "cli"
    /\ LET date_obj == StrptimeYMD(Strip(inp.date))
           amount == ParseFloat(Strip(inp.amount))
           category == Strip(inp.category)
           description == Strip(inp.description)
       IN  IF ~date_obj.ok \/ amount.kind = "err"
           THEN /\ out' = [op |-> "add", ok |-> FALSE, input |-> inp]
                /\ UNCHANGED <<exists, file>>
           ELSE /\ Len(file) < MaxLines
                /\ file' = AppendLine(file, ExpenseLine(date_obj, amount, category, description))
                /\ exists' = TRUE
                /\ out' = [op |-> "add", ok |-> TRUE, input |-> inp]
    /\ UNCHANGED <<mode, tree>>

\* What display_expenses prints of the expenses read, and whether it raises.
DisplayOut(expenses) ==
    [op |-> "display", rows |-> CliListing(expenses),
     raised |-> \E i \in 1..Len(expenses) : CliRowRaises(expenses[i])]

CliDisplay ==
    /\ mode = "cli"
    /\ out' = DisplayOut(ReadExpenses(exists, file))
    /\ mode' = IF out'.raised THEN "crashed" ELSE "cli"
    /\ UNCHANGED <<exists, file, tree>>

\* What monthly_totals reports of the expenses read, and whether it raises.
TotalsOut(expenses) ==
    [op |-> "totals", report |-> MonthlyReport(expenses),
     raised |-> \E i \in 1..Len(expenses) : CliCategoryRaises(expenses[i])]

CliTotals ==
    /\ mode = "cli"
    /\ out' = TotalsOut(ReadExpenses(exists, file))
    /\ mode' = IF out'.raised THEN "crashed" ELSE "cli"
    /\ UNCHANGED <<exists, file, tree>>

\* plot_expenses() on the expenses read, for a month and a chart typed in:
\* what it reports and the category totals it charts.
CliPlotOut(expenses, month_raw, choice) ==
    LET month_input == Strip(month_raw)
        filtered == FilterMonth(expenses, month_input)
        raises == \E i \in 1..Len(filtered) : filtered[i].category = KeyErr
        result ==
            IF expenses = <<>> THEN "no_expenses"
            ELSE IF ~StrptimeYM(month_input).ok THEN "invalid_month"
            ELSE IF filtered = <<>> THEN "none_for_month"
            ELSE IF raises THEN "raised"
            ELSE IF choice = <<"1">> THEN "pie"
            ELSE IF choice = <<"2">> THEN "bar"
            ELSE "invalid_choice"
    IN  [op |-> "plot", month |-> month_input, result |-> result,
         totals |-> IF result \in {"pie", "bar", "invalid_choice"}
                    THEN CategoryTotals(filtered, <<>>) ELSE <<>>]

\* plot_expenses() for each month and chart that may be typed.
CliPlotOuts(expenses) ==
    {CliPlotOut(expenses, month_raw, choice) :
        month_raw \in MonthInputs, choice \in ChartInputs}

CliPlot ==
    /\ mode = "cli"
    /\ out' \in CliPlotOuts(ReadExpenses(exists, file))
    /\ mode' = IF out'.result = "raised" THEN "crashed" ELSE "cli"
    /\ UNCHANGED <<exists, file, tree>>

CliInvalidChoice ==
    /\ mode = "cli"
    /\ out' = [op |-> "invalid"]
    /\ UNCHANGED <<exists, file, mode, tree>>

CliExit ==
    /\ mode = "cli"
    /\ mode' = "stopped"
    /\ out' = [op |-> "exit"]
    /\ UNCHANGED <<exists, file, tree>>

(***************************************************************************)
(* The GUI: ExpenseTrackerApp and its button callbacks.  An exception in a *)
(* callback is reported by Tk and the main loop goes on.                   *)
(***************************************************************************)
\* The values load_expenses inserts for one dictionary of the reader;
\* ok = FALSE when building them raises.
TreeRow(d) ==
    LET amount == ParseFloat(Lookup(d, K_amount))
    IN  [ok |-> /\ Lookup(d, K_date) # KeyErr
                /\ amount.kind # "err"
                /\ Lookup(d, K_category) # KeyErr
                /\ Lookup(d, K_description) # KeyErr,
         date |-> Lookup(d, K_date),
         amount |-> Format2f(amount),
         category |-> Lookup(d, K_category),
         description |-> Lookup(d, K_description)]

\* The rows inserted up to the first dictionary that raises.
InsertOrRaise(r, rest) == IF ~r.ok THEN <<>> ELSE <<r>> \o rest

RECURSIVE TreeRows(_)
TreeRows(ds) ==
    IF ds = <<>> THEN <<>>
    ELSE InsertOrRaise(TreeRow(Head(ds)), TreeRows(Tail(ds)))

\* The Treeview after the loop over the dictionaries ds inserted `rows`,
\* and whether the loop raised: it did if it did not reach the end.
Loaded(ds, rows) == [rows |-> rows, error |-> Len(rows) < Len(ds)]

LoadRows(ds) == Loaded(ds, TreeRows(ds))

\* load_expenses(): the Treeview afterwards, and whether the error box showed.
LoadExpenses(ex, lines) ==
    IF ~ex THEN [rows |-> <<>>, error |-> FALSE]
    ELSE LoadRows(DictRows(lines))

\* __init__ after initialize_csv: the Treeview as loaded, and the error box.
GuiShow(loaded, existed) ==
    /\ tree' = loaded.rows
    /\ out' = [op |-> "start", existed |-> existed, error |-> loaded.error]

GuiStart ==
    /\ mode \in {"stopped", "crashed"}
    /\ file' = InitializeCsv(exists, file)
    /\ exists' = TRUE
    /\ mode' = "gui"
    /\ GuiShow(LoadExpenses(TRUE, file'), exists)

GuiAdd(inp) ==
    /\ mode = "gui"
    /\ LET date_obj == StrptimeYMD(Strip(inp.date))
           amount == ParseFloat(Strip(inp.amount))
           category == Strip(inp.category)
           description == Strip(inp.description)
           line == ExpenseLine(date_obj, amount, category, description)
       IN  IF ~date_obj.ok \/ amount.kind = "err" \/ category = <<>>
           THEN /\ out' = [op |-> "add", ok |-> FALSE, input |-> inp]
                /\ UNCHANGED <<exists, file, tree>>
           ELSE /\ Len(file) < MaxLines
                /\ file' = AppendLine(file, line)
                /\ exists' = TRUE
                /\ tree' = LoadExpenses(TRUE, file').rows
                /\ out' = [op |-> "add", ok |-> TRUE, input |-> inp]
    /\ UNCHANGED mode

\* What show_monthly_totals reports of the expenses read.
GuiTotalsOut(expenses) ==
    [op |-> "totals", report |-> MonthlyReport(expenses),
     raised |-> \E i \in 1..Len(expenses) : expenses[i].category = KeyErr]

GuiTotals ==
    /\ mode = "gui"
    /\ out' = GuiTotalsOut(ReadExpenses(exists, file))
    /\ UNCHANGED <<exists, file, mode, tree>>

\* plot_expenses() of the GUI, likewise; the month is not stripped, and an
\* empty answer to either dialog returns.
GuiPlotOut(expenses, month_input, chart_type) ==
    LET filtered == FilterMonth(expenses, month_input)
        raises == \E i \in 1..Len(filtered) : filtered[i].category = KeyErr
        charted == expenses # <<>> /\ month_input # <<>> /\ StrptimeYM(month_input).ok
                   /\ filtered # <<>> /\ ~raises
        result ==
            IF expenses = <<>> THEN "no_expenses"
            ELSE IF month_input = <<>> THEN "cancelled"
            ELSE IF ~StrptimeYM(month_input).ok THEN "invalid_month"
            ELSE IF filtered = <<>> THEN "none_for_month"
            ELSE IF raises THEN "raised"
            ELSE IF chart_type = <<>> THEN "cancelled"
            ELSE IF chart_type = <<"p", "i", "e">> THEN "pie"
            ELSE IF chart_type = <<"b", "a", "r">> THEN "bar"
            ELSE "invalid_choice"
    IN  [op |-> "plot", month |-> month_input, result |-> result,
         totals |-> IF charted THEN CategoryTotals(filtered, <<>>) ELSE <<>>]

\* plot_expenses() for each month and chart that may be typed.
GuiPlotOuts(expenses) ==
    {GuiPlotOut(expenses, month_input, chart_type) :
        month_input \in MonthInputs, chart_type \in ChartInputs}

GuiPlot ==
    /\ mode = "gui"
    /\ out' \in GuiPlotOuts(ReadExpenses(exists, file))
    /\ UNCHANGED <<exists, file, mode, tree>>

GuiClose ==
    /\ mode = "gui"
    /\ mode' = "stopped"
    /\ tree' = <<>>
    /\ out' = [op |-> "exit"]
    /\ UNCHANGED <<exists, file>>

(***************************************************************************)
(* The specification                                                       *)
(***************************************************************************)
Init ==
    /\ exists \in BOOLEAN
    /\ file \in (IF exists THEN InitialFiles ELSE {<<>>})
    /\ mode = "stopped"
    /\ tree = <<>>
    /\ out = [op |-> "none"]

Next ==
    \/ CliStart
    \/ \E inp \in Inputs : CliAdd(inp)
    \/ CliDisplay
    \/ CliTotals
    \/ CliPlot
    \/ CliInvalidChoice
    \/ CliExit
    \/ GuiStart
    \/ \E inp \in Inputs : GuiAdd(inp)
    \/ GuiTotals
    \/ GuiPlot
    \/ GuiClose

Spec == Init /\ [][Next]_vars

(***************************************************************************)
(* What the claims speak of, stated apart from the code                    *)
(***************************************************************************)
RECURSIVE SplitFrom(_, _, _)
SplitFrom(s, c, st) ==
    IF st.i > Len(s) THEN Append(st.parts, st.cur)
    ELSE IF s[st.i] = c
         THEN SplitFrom(s, c, [i |-> st.i + 1, cur |-> <<>>, parts |-> Append(st.parts, st.cur)])
    ELSE SplitFrom(s, c, [i |-> st.i + 1, cur |-> Append(st.cur, s[st.i]), parts |-> st.parts])

\* The parts of s between the occurrences of c.
SplitOn(s, c) == SplitFrom(s, c, [i |-> 1, cur |-> <<>>, parts |-> <<>>])

AllDigits(t) == t # <<>> /\ \A i \in 1..Len(t) : IsDigit(t[i])

RECURSIVE NatOf(_)
NatOf(t) == IF t = <<>> THEN 0 ELSE 10 * NatOf(SubSeq(t, 1, Len(t) - 1)) + DigitVal(t[Len(t)])

CalendarDays(y, m) ==
    IF m = 2 /\ (y % 400 = 0 \/ (y % 4 = 0 /\ y % 100 # 0)) THEN 29
    ELSE <<31, 28, 31, 30, 31, 30, 31, 31, 30, 31, 30, 31>>[m]

\* The calendar date a text of the form year-month-day denotes, if any.
SpecDate(s) ==
    LET p == SplitOn(s, "-")
        shaped == /\ Len(p) = 3
                  /\ \A i \in 1..3 : AllDigits(p[i])
                  /\ Len(p[1]) = 4 /\ Len(p[2]) \in {1, 2} /\ Len(p[3]) \in {1, 2}
        y == NatOf(p[1])
        m == NatOf(p[2])
        d == NatOf(p[3])
    IN  IF shaped /\ y >= 1 /\ m \in 1..12 /\ d >= 1 /\ d <= CalendarDays(y, m)
        THEN [ok |-> TRUE, y |-> y, m |-> m, d |-> d]
        ELSE [ok |-> FALSE, y |-> 0, m |-> 0, d |-> 0]

\* The month a month key YYYY-MM denotes, if it is one.
SpecMonthKey(s) ==
    LET p == SplitOn(s, "-")
        shaped == Len(p) = 2 /\ AllDigits(p[1]) /\ AllDigits(p[2])
                  /\ Len(p[1]) = 4 /\ Len(p[2]) = 2
    IN  IF shaped /\ NatOf(p[1]) >= 1 /\ NatOf(p[2]) \in 1..12
        THEN [ok |-> TRUE, y |-> NatOf(p[1]), m |-> NatOf(p[2])]
        ELSE [ok |-> FALSE, y |-> 0, m |-> 0]

\* The finite decimal number a text denotes, if any: sign, n / 10^k.
SpecDecimal(s) ==
    LET neg == s # <<>> /\ Head(s) = "-"
        u == IF s # <<>> /\ Head(s) \in {"+", "-"} THEN Tail(s) ELSE s
        p == SplitOn(u, ".")
        shaped == /\ Len(p) \in {1, 2}
                  /\ \A i \in 1..Len(p) : \A j \in 1..Len(p[i]) : IsDigit(p[i][j])
                  /\ \E i \in 1..Len(p) : p[i] # <<>>
        fp == IF Len(p) = 2 THEN p[2] ELSE <<>>
    IN  IF shaped THEN [ok |-> TRUE, neg |-> neg, n |-> NatOf(p[1] \o fp), k |-> Len(fp)]
        ELSE [ok |-> FALSE, neg |-> FALSE, n |-> 0, k |-> 0]

\* A form that passes the three checks of the data model: a calendar date,
\* a finite number, a category that is not empty after trimming.
ValidInput(inp) ==
    /\ SpecDate(Strip(inp.date)).ok
    /\ SpecDecimal(Strip(inp.amount)).ok
    /\ Strip(inp.category) # <<>>

\* The double nearest to c / 100, for a natural number c of cents.
NearestDoubleOfCents(c) ==
    LET d == DivPow10([n |-> 2, q |-> ShiftUp(c), sticky |-> FALSE])
    IN  RoundMant(d.q, d.sticky)

SmallBig(n) == BigMulAdd(BigZero, 1, n)

\* x is the decimal `dec` rounded to two places (to a nearest hundredth,
\* either one when two are as near), as the double nearest to that.
IsRoundedTo2(dec, x) ==
    /\ x.kind = "num"
    /\ x.neg = dec.neg
    /\ \E c \in {(100 * dec.n) \div (10^dec.k), ((100 * dec.n) \div (10^dec.k)) + 1} :
          /\ 2 * (c * 10^dec.k - 100 * dec.n) <= 10^dec.k
          /\ 2 * (100 * dec.n - c * 10^dec.k) <= 10^dec.k
          /\ x.mag = NearestDoubleOfCents(SmallBig(c))

\* The amounts xs added up in order, from 0.0.
RECURSIVE SumOf(_)
SumOf(xs) ==
    IF xs = <<>> THEN Zero ELSE DoubleAdd(SumOf(SubSeq(xs, 1, Len(xs) - 1)), xs[Len(xs)])

\* The amounts of the records of month (y, m) and category c, in order.
RECURSIVE Contributions(_, _, _, _)
Contributions(recs, y, m, c) ==
    IF recs = <<>> THEN <<>>
    ELSE (IF Head(recs).date.y = y /\ Head(recs).date.m = m /\ Head(recs).category = c
          THEN <<Head(recs).amount>> ELSE <<>>)
         \o Contributions(Tail(recs), y, m, c)

\* The records of the file now.
Records == ReadExpenses(exists, file)

\* A dict whose keys are all different.
KeysDistinct(dict) == \A i, j \in 1..Len(dict) : dict[i][1] = dict[j][1] => i = j

\* The category totals `cells` are those of the records of month (y, m):
\* a cell for each category that has a record there and for no other, each
\* holding the sum of that category's amounts.
CellsAreTotals(cells, recs, y, m) ==
    /\ KeysDistinct(cells)
    /\ \A j \in 1..Len(cells) :
          LET xs == Contributions(recs, y, m, cells[j][1])
          IN  xs # <<>> /\ cells[j][2] = SumOf(xs)
    /\ \A i \in 1..Len(recs) :
          (recs[i].date.y = y /\ recs[i].date.m = m) => HasKey(cells, recs[i].category)

(***************************************************************************)
(* The claims                                                              *)
(***************************************************************************)
\* The fields of the file's last line.
LastRow == CsvRows(<<file[Len(file)]>>)[1]

AddSucceeded == out.op = "add" /\ out.ok

\* C1: every row an add writes has a valid calendar date, a finite amount
\* and a category that is not empty after trimming, and an add whose input
\* fails one of the three checks writes no row.
C1_AddWritesOnlyValidRows ==
    AddSucceeded =>
        /\ ValidInput(out.input)
        /\ Len(LastRow) = 4
        /\ SpecDate(LastRow[1]).ok
        /\ SpecDecimal(LastRow[2]).ok
        /\ Strip(LastRow[3]) # <<>>

\* C2: the store is append-only: no step removes the file, rewrites or
\* reorders a line of it, and a successful add lengthens it by one line.
C2_AppendOnly ==
    [][ /\ exists => exists'
        /\ Len(file') >= Len(file)
        /\ SubSeq(file', 1, Len(file)) = file
        /\ AddSucceeded' => Len(file') = Len(file) + 1 ]_vars

C2_Witness == AddSucceeded /\ Len(file) >= 3 /\ file[1] = HeaderLine

\* C3: reading returns one record for each stored row that has the four
\* columns, a numeric amount and a parseable date, in the order stored, and
\* nothing for any other row.
RECURSIVE WellFormedOnly(_)
WellFormedOnly(ds) ==
    IF ds = <<>> THEN <<>>
    ELSE (IF /\ Len(Head(ds).row) = Len(FIELDNAMES)
             /\ ParseFloat(Head(ds).row[2]).kind # "err"
             /\ SpecDate(Head(ds).row[1]).ok
          THEN <<ParseExpense(Head(ds))>> ELSE <<>>)
         \o WellFormedOnly(Tail(ds))

C3_ReadSkipsMalformed ==
    out.op \in {"display", "totals", "plot"} => Records = WellFormedOnly(DictRows(file))

\* C4: on an initialized store, an add of a valid form makes the records
\* read back one more, the earlier ones unchanged and first, the last one
\* with the form's date, its trimmed category and description, and its
\* amount rounded to two decimal places.
C4_RoundTrip ==
    [][ (/\ exists /\ file # <<>> /\ file[1] = HeaderLine
         /\ file' # file
         /\ ValidInput(out'.input))
        => LET before == ReadExpenses(exists, file)
               after == ReadExpenses(exists', file')
               e == after[Len(after)]
               inp == out'.input
               date == SpecDate(Strip(inp.date))
           IN  /\ Len(after) = Len(before) + 1
               /\ SubSeq(after, 1, Len(before)) = before
               /\ e.date.y = date.y /\ e.date.m = date.m /\ e.date.d = date.d
               /\ e.category = Strip(inp.category)
               /\ e.description = Strip(inp.description)
               /\ IsRoundedTo2(SpecDecimal(Strip(inp.amount)), e.amount) ]_vars

C4_Witness ==
    /\ AddSucceeded /\ ValidInput(out.input)
    /\ NeedsQuote(Strip(out.input.description))
    /\ SpecDecimal(Strip(out.input.amount)).k > 2
    /\ Len(file) >= 3 /\ file[1] = HeaderLine

\* C5: the monthly report has a cell for exactly the (month, category)
\* pairs that have a record, each cell the sum of that pair's amounts, each
\* month once, and the months in ascending order.
C5_MonthlyTotals ==
    (out.op = "totals" /\ ~out.raised) =>
        LET report == out.report IN
        /\ \A i \in 1..Len(report) :
              LET key == SpecMonthKey(report[i][1])
              IN  /\ key.ok
                  /\ report[i][2] # <<>>
                  /\ CellsAreTotals(report[i][2], Records, key.y, key.m)
        /\ \A r \in 1..Len(Records) :
              \E i \in 1..Len(report) :
                  /\ SpecMonthKey(report[i][1]).y = Records[r].date.y
                  /\ SpecMonthKey(report[i][1]).m = Records[r].date.m
        /\ \A i, j \in 1..Len(report) :
              i < j => LET a == SpecMonthKey(report[i][1])
                           b == SpecMonthKey(report[j][1])
                       IN  12 * a.y + a.m < 12 * b.y + b.m

C5_Witness ==
    /\ out.op = "totals" /\ ~out.raised
    /\ Len(out.report) >= 2
    /\ \E i \in 1..Len(out.report) : \E j \in 1..Len(out.report[i][2]) :
          LET key == SpecMonthKey(out.report[i][1])
          IN  Len(Contributions(Records, key.y, key.m, out.report[i][2][j][1])) >= 2
    /\ Records[1].date.m > Records[Len(Records)].date.m

\* C6: for a month key YYYY-MM, the totals charted are that month's entry
\* of the monthly report, a sum per category; a month without records gives
\* no totals and a notice, not an error.
C6_TotalsForMonth ==
    (out.op = "plot" /\ SpecMonthKey(out.month).ok) =>
        LET key == SpecMonthKey(out.month)
            report == MonthlyReport(Records)
            entry == {i \in 1..Len(report) : report[i][1] = out.month}
            inMonth == \E r \in 1..Len(Records) :
                           Records[r].date.y = key.y /\ Records[r].date.m = key.m
        IN  /\ out.result \notin {"invalid_month", "raised"}
            /\ inMonth <=> entry # {}
            /\ IF inMonth
               THEN /\ out.result \in {"pie", "bar", "invalid_choice", "cancelled"}
                    /\ out.result # "cancelled" =>
                          /\ \E i \in entry : out.totals = report[i][2]
                          /\ CellsAreTotals(out.totals, Records, key.y, key.m)
               ELSE /\ out.result \in {"no_expenses", "none_for_month"}
                    /\ out.totals = <<>>

C6_Witness ==
    /\ out.op = "plot" /\ out.result \in {"pie", "bar"}
    /\ SpecMonthKey(out.month).ok
    /\ \E j \in 1..Len(out.totals) :
          Len(Contributions(Records, SpecMonthKey(out.month).y,
                            SpecMonthKey(out.month).m, out.totals[j][1])) >= 2
    /\ \E r \in 1..Len(Records) : Records[r].date.m # SpecMonthKey(out.month).m

\* C7: the listing of either front end is the records that reading the file
\* returns, one row for each in the same order, no other.
C7_ListingIsReadAll ==
    /\ out.op = "display" =>
          /\ ~out.raised
          /\ Len(out.rows) = Len(Records)
          /\ \A i \in 1..Len(Records) : out.rows[i] = ListingRow(Records[i])
    /\ mode = "gui" =>
          /\ Len(tree) = Len(Records)
          /\ \A i \in 1..Len(Records) :
                /\ SpecDate(tree[i].date).ok
                /\ SpecDate(tree[i].date).y = Records[i].date.y
                /\ SpecDate(tree[i].date).m = Records[i].date.m
                /\ SpecDate(tree[i].date).d = Records[i].date.d
                /\ tree[i].amount = Format2f(Records[i].amount)
                /\ tree[i].category = Records[i].category
                /\ tree[i].description = Records[i].description

\* C8: no failure ends the command-line loop: the process never dies of an
\* exception, whatever the file holds and whatever is typed.
C8_LoopSurvives == mode # "crashed"

\* C9: starting creates the store with its header line when there is none
\* and leaves an existing store as it is, rows and all.
C9_InitializeIdempotent ==
    [][ (mode \in {"stopped", "crashed"} /\ mode' \in {"cli", "gui"})
        => /\ exists'
           /\ IF exists THEN file' = file ELSE file' = <<HeaderLine>> ]_vars

C9_Witness ==
    /\ out.op = "start" /\ out.existed
    /\ Len(file) >= 2 /\ file \notin InitialFiles
    /\ file[1] = HeaderLine

\* The cents of the amounts xs added up as integers.
RECURSIVE CentsSum(_)
CentsSum(xs) ==
    IF xs = <<>> THEN BigZero
    ELSE BigAdd(CentsSum(SubSeq(xs, 1, Len(xs) - 1)), RoundCents(xs[Len(xs)].mag))

\* C10: every total of the monthly report is the exact sum of its amounts
\* in hundredths, free of binary floating-point rounding: the number
\* nearest to that sum of cents.
C10_TotalsExact ==
    (out.op = "totals" /\ ~out.raised) =>
        \A i \in 1..Len(out.report) : \A j \in 1..Len(out.report[i][2]) :
            LET key == SpecMonthKey(out.report[i][1])
                xs == Contributions(Records, key.y, key.m, out.report[i][2][j][1])
            IN  (\A k \in 1..Len(xs) : IsFinite(xs[k]) /\ ~xs[k].neg)
                => out.report[i][2][j][2] = Num(FALSE, NearestDoubleOfCents(CentsSum(xs)))

====
